---- MODULE Spec2Model ----
(***************************************************************************)
(* State-machine model of the region-subtraction pipeline of rsbamtk,      *)
(* src/src/subtract_regions.rs: remove_regions_from_bam.  One orchestrator *)
(* thread, n_threads filter threads and one writer thread communicate over *)
(* two unbounded crossbeam channels.  Every `.expect(..)` of the source is *)
(* a panic of the thread that runs it; a panic unwinds and drops what the  *)
(* thread owns (its channel endpoints, its batch, the output writer).      *)
(***************************************************************************)
EXTENDS Integers, Sequences, FiniteSets, TLC

\* ------------------------------------------------------------------ bounds
\* Largest worker pool explored by Spec (n_threads ranges over 0..MaxThreads).
MaxThreads == 2
\* Largest number of records in the alignment file.
MaxRecs == 3
\* Largest number of injected I/O faults (read, fetch, open, write) in one run.
MaxFaults == 1
\* The batch capacity, `1e5 as usize` in the source, scaled down.
BatchCapacity == 2

\* ------------------------------------------------------------------ values
\* The reference sequences an alignment header may declare, in header order.
ChromNames == <<"chr1", "chr2">>
\* The chromosome of a record that is assigned to no reference (tid = -1).
NoChrom == "*"

\* The coordinates of Spec, which explores the threads: one span, [0,1), and
\* one interval, [0,1), so that a reference with a key drops its records and a
\* reference without one keeps them.  The scenario specifications below explore
\* the coordinates.
Positions == {0, 1}

\* An exclusion interval: Iv { start, stop, val: 0 }.
Iv(start, stop) == [start |-> start, stop |-> stop]

\* An alignment record: identity, reference name, reference_start, reference_end.
Rec(id, chrom, start, end) == [id |-> id, chrom |-> chrom, start |-> start, end |-> end]

Prefixes(s) == {SubSeq(s, 1, n) : n \in 0..Len(s)}

Range(s) == {s[i] : i \in 1..Len(s)}

VARIABLES
    \* inputs of the call (fixed during a run)
    bedLines,       \* the lines of the interval file get_intervals has still to read
    bed,            \* intervals_for_subtraction: chromosome -> sequence of Iv
    header,         \* header_view: the reference names the input declares
    bam,            \* the records of the input file, in file order
    hasIndex,       \* whether the input has its companion index file
    n_threads,
    run,            \* 1 for the first run, 2 for a re-run on the first output
    \* orchestrator
    mainPc,
    chrom_names,    \* what the `for chrom in chrom_names` loop has still to send
    nextJoin,       \* position in filter_handles of the next handle to join
    \* channels
    chromQ,         \* messages in the chromosome channel
    chromSender,    \* TRUE while chrom_sender is not dropped
    filtQ,          \* batches in the batch channel
    filtSender,     \* TRUE while the orchestrator's filt_sender is not dropped
    \* threads
    worker,         \* worker[w]: pc, chrom, cursor, record_batch, batch_counter
    writer,         \* pc of the writer thread
    \* the output file: what has been written to it, in order
    output,
    \* history: the panics so far, in the order they happened
    faultLog,
    \* history: the records read by a scan, those pushed to a batch, and the
    \* batches handed to the batch channel
    scanned,
    retained,
    emitted,
    \* history: the chromosome names received so far, each with its receiver
    claimed

vars == <<bedLines, bed, header, bam, hasIndex, n_threads, run, mainPc, chrom_names, nextJoin,
          chromQ, chromSender, filtQ, filtSender, worker, writer, output, faultLog,
          scanned, retained, emitted, claimed>>

history == <<scanned, retained, emitted, claimed>>

inputs == <<bedLines, bed, header, bam, hasIndex, n_threads, run>>

Workers == 1..n_threads

\* ------------------------------------------------------------ pure helpers

\* Mutant: closed intervals, touching endpoints overlap.
OverlapsClosed(iv, start, end) == iv.start <= end /\ iv.stop >= start

\* rust_lapper's Interval::overlap, the test behind Lapper::count: half-open
\* intervals, touching endpoints do not overlap.
Overlaps(iv, start, end) == iv.start < end /\ iv.stop > start

\* lapper.count(start, end): how many stored intervals overlap [start, end).
count(intervals, start, end) ==
    Cardinality({i \in 1..Len(intervals) : Overlaps(intervals[i], start, end)})

\* header.tid(name): the first target of that name.
Tid(h, chrom) ==
    IF chrom = NoChrom THEN Len(h) + 1
    ELSE CHOOSE i \in 1..Len(h) : h[i] = chrom /\ \A j \in 1..(i - 1) : h[j] # chrom

\* get_chrom_names: each target name is mapped to its tid and the tid back to
\* its name, in header order.
get_chrom_names(h) == [i \in 1..Len(h) |-> h[Tid(h, h[i])]]

\* Mutant: the fetch does not restrict the scan to the reference.
FetchRecordsWholeFile(chrom) == SelectSeq(bam, LAMBDA r : r.chrom # NoChrom)

\* Mutant: the scan also returns the records assigned to no reference.
FetchRecordsWithUnplaced(chrom) == SelectSeq(bam, LAMBDA r : r.chrom \in {chrom, NoChrom})

\* Mutant: the scan loses the first record of the reference.
FetchRecordsSkipFirst(chrom) ==
    LET all == SelectSeq(bam, LAMBDA r : r.chrom = chrom)
    IN  IF all = <<>> THEN <<>> ELSE Tail(all)

\* reader.fetch(chrom) then reader.records(): the records of one reference,
\* in file order.
FetchRecords(chrom) == SelectSeq(bam, LAMBDA r : r.chrom = chrom)

\* Mutant: a reference without intervals keeps nothing.
KeepsListedOnly(chrom, r) ==
    chrom \in DOMAIN bed /\ count(bed[chrom], r.start, r.end) = 0

\* The branch of `match intervals_for_subtraction.get(&chrom)` and the test
\* `overlap_count == 0`: whether the scan keeps record r of chromosome chrom.
Keeps(chrom, r) ==
    IF chrom \in DOMAIN bed THEN count(bed[chrom], r.start, r.end) = 0 ELSE TRUE

\* The entries of the output file.
HeaderEntry(h) == [kind |-> "header", refs |-> h]
RecordEntry(r) == [kind |-> "record", rec |-> r]

\* Mutant: the records of a batch are written last to first.
RECURSIVE EntriesReversed(_)
EntriesReversed(batch) ==
    IF batch = <<>> THEN <<>>
    ELSE EntriesReversed(Tail(batch)) \o <<RecordEntry(Head(batch))>>

\* `for read in record_batch { bam_writer.write(&read) }`: the entries a batch
\* adds to the output.
RECURSIVE Entries(_)
Entries(batch) ==
    IF batch = <<>> THEN <<>> ELSE <<RecordEntry(Head(batch))>> \o Entries(Tail(batch))

\* The records of an output file.
RECURSIVE RecordsOf(_)
RecordsOf(out) ==
    IF out = <<>> THEN <<>>
    ELSE (IF Head(out).kind = "record" THEN <<Head(out).rec>> ELSE <<>>) \o RecordsOf(Tail(out))

OutputRecords == RecordsOf(output)

\* Mutant: the written header declares only the references that keep a record.
WrittenHeaderUsedOnly(h) ==
    [kind |-> "header",
     refs |-> SelectSeq(h, LAMBDA c : \E r \in Range(bam) : r.chrom = c /\ Keeps(c, r))]

\* Writer::from_path(output, &header, ..): creating the writer writes the header,
\* built by Header::from_template from the input's header view.
WrittenHeader(h) == HeaderEntry(h)

\* A filter thread has ended (returned or panicked): it owns nothing any more.
WorkerEnded(w) == worker[w].pc \in {"done", "panicked"}
WriterEnded == writer \in {"done", "panicked"}

\* Mutant: the clones of filt_sender moved into the filter threads do not count.
SendersAliveOrchestratorOnly == filtSender

\* Mutant: a panicking filter thread leaks its writer_sender.
SendersAliveLeaked == filtSender \/ \E w \in Workers : worker[w].pc # "done"

\* The batch channel is disconnected for the receiver when the orchestrator's
\* filt_sender and every clone moved into a filter thread are dropped.
SendersAlive == filtSender \/ \E w \in Workers : ~WorkerEnded(w)

\* filt_recv lives in the writer thread's closure until that thread ends.
ReceiverAlive == ~WriterEnded

Injected == {"fetch", "read", "open_output", "write"}

NInjected == Cardinality({i \in 1..Len(faultLog) : faultLog[i].what \in Injected})

MayInject == NInjected < MaxFaults

Fault(who, what) == [who |-> who, what |-> what]

\* ------------------------------------------------------------------- Init

Intervals == {Iv(p[1], p[2]) : p \in {q \in Positions \X Positions : q[1] < q[2]}}

Spans == {q \in Positions \X Positions : q[1] < q[2]}

\* The interval maps of Spec: any subset of the reference names as keys, one
\* interval per key.
BedMaps == UNION {[keys -> {<<iv>> : iv \in Intervals}] : keys \in SUBSET Range(ChromNames)}

\* A coordinate-sorted file: by reference in header order (records assigned
\* to no reference last), then by start.
Sorted(h, recs) ==
    \A i \in 1..Len(recs) - 1 :
        \/ Tid(h, recs[i].chrom) < Tid(h, recs[i + 1].chrom)
        \/ /\ recs[i].chrom = recs[i + 1].chrom
           /\ recs[i].start <= recs[i + 1].start

RecordKinds(h) ==
    {[chrom |-> c, start |-> s[1], end |-> s[2]] : c \in Range(h), s \in Spans}
        \cup {[chrom |-> NoChrom, start |-> 0, end |-> 1]}

\* The files of at most n records over header h; a record's id is its place in
\* the file.
BamFiles(h, n) ==
    LET raw == UNION {[1..k -> RecordKinds(h)] : k \in 0..n}
        ided(f) == [i \in DOMAIN f |-> Rec(i, f[i].chrom, f[i].start, f[i].end)]
    IN  {ided(f) : f \in {g \in raw : Sorted(h, g)}}

\* The state when the two channels have been created (line 63), for the given
\* inputs.
Start(b, h, recs, idx, n) ==
    /\ bedLines = <<>>
    /\ bed = b
    /\ header = h
    /\ bam = recs
    /\ hasIndex = idx
    /\ n_threads = n
    /\ run = 1
    /\ mainPc = "spawn_filters"
    /\ chrom_names = get_chrom_names(h)
    /\ nextJoin = 1
    /\ chromQ = <<>>
    /\ chromSender = TRUE
    /\ filtQ = <<>>
    /\ filtSender = TRUE
    /\ worker = [w \in 1..n |->
                    [pc |-> "unspawned", chrom |-> NoChrom, cursor |-> 1,
                     record_batch |-> <<>>, batch_counter |-> 0]]
    /\ writer = "unspawned"
    /\ output = <<>>
    /\ faultLog = <<>>
    /\ scanned = {}
    /\ retained = {}
    /\ emitted = {}
    /\ claimed = <<>>

Init ==
    \E h \in Prefixes(ChromNames), b \in BedMaps, idx \in BOOLEAN, n \in 0..MaxThreads :
        \E recs \in BamFiles(h, MaxRecs) : Start(b, h, recs, idx, n)

\* ----------------------------------------------------------- orchestrator

\* Lines 65-145: the spawn loop; each thread owns clones of chrom_recv and of
\* filt_sender from the moment it is spawned.
MainSpawnFilters ==
    /\ mainPc = "spawn_filters"
    /\ worker' = [w \in Workers |-> [worker[w] EXCEPT !.pc = "recv"]]
    /\ mainPc' = "spawn_writer"
    /\ UNCHANGED <<inputs, chrom_names, nextJoin, chromQ, chromSender, filtQ, filtSender,
                   writer, output, faultLog, history>>

\* Lines 148-157: the writer thread is spawned; filt_recv moves into it.
MainSpawnWriter ==
    /\ mainPc = "spawn_writer"
    /\ writer' = "open"
    /\ mainPc' = "send"
    /\ UNCHANGED <<inputs, chrom_names, nextJoin, chromQ, chromSender, filtQ, filtSender,
                   worker, output, faultLog, history>>

\* Mutant: the names are sent last to first.
MainSendChromLastFirst ==
    /\ mainPc = "send"
    /\ chrom_names # <<>>
    /\ chromQ' = Append(chromQ, chrom_names[Len(chrom_names)])
    /\ chrom_names' = SubSeq(chrom_names, 1, Len(chrom_names) - 1)
    /\ UNCHANGED <<inputs, mainPc, nextJoin, chromSender, filtQ, filtSender, worker,
                   writer, output, faultLog, history>>

\* Lines 160-162: one iteration of the send loop.  The orchestrator keeps its
\* own chrom_recv, so the send never fails; the channel is unbounded.
MainSendChrom ==
    /\ mainPc = "send"
    /\ chrom_names # <<>>
    /\ chromQ' = Append(chromQ, Head(chrom_names))
    /\ chrom_names' = Tail(chrom_names)
    /\ UNCHANGED <<inputs, mainPc, nextJoin, chromSender, filtQ, filtSender, worker,
                   writer, output, faultLog, history>>

\* Mutant: chrom_sender is dropped after the first pass of the send loop.
MainDropChromSenderEarly ==
    /\ mainPc = "send"
    /\ chromSender' = FALSE
    /\ mainPc' = "drop_filt_sender"
    /\ UNCHANGED <<inputs, chrom_names, nextJoin, chromQ, filtQ, filtSender, worker,
                   writer, output, faultLog, history>>

\* Mutant: chrom_sender is kept until the call returns.
MainDropChromSenderKept ==
    /\ mainPc = "send"
    /\ chrom_names = <<>>
    /\ mainPc' = "drop_filt_sender"
    /\ UNCHANGED <<inputs, chrom_names, nextJoin, chromQ, chromSender, filtQ, filtSender,
                   worker, writer, output, faultLog, history>>

\* Line 165: drop(chrom_sender).
MainDropChromSender ==
    /\ mainPc = "send"
    /\ chrom_names = <<>>
    /\ chromSender' = FALSE
    /\ mainPc' = "drop_filt_sender"
    /\ UNCHANGED <<inputs, chrom_names, nextJoin, chromQ, filtQ, filtSender, worker,
                   writer, output, faultLog, history>>

\* Line 166: drop(filt_sender).
MainDropFiltSender ==
    /\ mainPc = "drop_filt_sender"
    /\ filtSender' = FALSE
    /\ mainPc' = "join"
    /\ UNCHANGED <<inputs, chrom_names, nextJoin, chromQ, chromSender, filtQ, worker,
                   writer, output, faultLog, history>>

\* Mutant: the handle is not waited for.
JoinReturnsAtOnce(threadPc) == TRUE

\* Mutant: the result of join is not looked at.
JoinResultUnchecked(threadPc, onOk) == onOk

\* handle.join() blocks until the joined thread has ended.
JoinReturns(threadPc) == threadPc \in {"done", "panicked"}

\* What handle.join().expect(..) does once the joined thread has ended: a
\* panicked thread makes join return Err, and expect panics the orchestrator.
JoinResult(threadPc, onOk) == IF threadPc = "panicked" THEN "Panicked" ELSE onOk

\* Lines 169-171: join the next filter thread, in spawn order.
MainJoinFilter ==
    /\ mainPc = "join"
    /\ nextJoin <= n_threads
    /\ JoinReturns(worker[nextJoin].pc)
    /\ mainPc' = JoinResult(worker[nextJoin].pc, "join")
    /\ nextJoin' = IF mainPc' = "Panicked" THEN nextJoin ELSE nextJoin + 1
    /\ UNCHANGED <<inputs, chrom_names, chromQ, chromSender, filtQ, filtSender, worker,
                   writer, output, faultLog, history>>

\* Lines 172-174: join the writer thread, then return Ok(()).
MainJoinWriter ==
    /\ mainPc = "join"
    /\ nextJoin > n_threads
    /\ JoinReturns(writer)
    /\ mainPc' = JoinResult(writer, "Ok")
    /\ UNCHANGED <<inputs, chrom_names, nextJoin, chromQ, chromSender, filtQ, filtSender,
                   worker, writer, output, faultLog, history>>

\* ---------------------------------------------------------- filter thread

Panic(w, what) ==
    /\ worker' = [worker EXCEPT ![w] = [@ EXCEPT !.pc = "panicked", !.record_batch = <<>>,
                                                  !.batch_counter = 0]]
    /\ faultLog' = Append(faultLog, Fault(w, what))

\* Mutant: the received name stays in the channel.
WorkerRecvPeek(w) ==
    /\ worker[w].pc = "recv"
    /\ chromQ # <<>>
    /\ worker' = [worker EXCEPT ![w] = [pc |-> "fetch", chrom |-> Head(chromQ), cursor |-> 1,
                                        record_batch |-> <<>>, batch_counter |-> 0]]
    /\ claimed' = Append(claimed, [who |-> w, chrom |-> Head(chromQ)])
    /\ UNCHANGED <<inputs, mainPc, chrom_names, nextJoin, chromQ, chromSender, filtQ,
                   filtSender, writer, output, faultLog, scanned, retained, emitted>>

\* Line 75: `for chrom in chrom_recv` receives the next name; lines 76-77.
WorkerRecv(w) ==
    /\ worker[w].pc = "recv"
    /\ chromQ # <<>>
    /\ chromQ' = Tail(chromQ)
    /\ worker' = [worker EXCEPT ![w] = [pc |-> "fetch", chrom |-> Head(chromQ), cursor |-> 1,
                                        record_batch |-> <<>>, batch_counter |-> 0]]
    /\ claimed' = Append(claimed, [who |-> w, chrom |-> Head(chromQ)])
    /\ UNCHANGED <<inputs, mainPc, chrom_names, nextJoin, chromSender, filtQ, filtSender,
                   writer, output, faultLog, scanned, retained, emitted>>

\* Line 75, 141-144: the channel is empty and chrom_sender is dropped: the loop
\* ends and the thread drops its writer_sender.
WorkerQueueClosed(w) ==
    /\ worker[w].pc = "recv"
    /\ chromQ = <<>>
    /\ ~chromSender
    /\ worker' = [worker EXCEPT ![w].pc = "done"]
    /\ UNCHANGED <<inputs, mainPc, chrom_names, nextJoin, chromQ, chromSender, filtQ,
                   filtSender, writer, output, faultLog, history>>

\* Lines 81-83 and 115-117: IndexedReader::from_path and fetch succeed.
WorkerFetch(w) ==
    /\ worker[w].pc = "fetch"
    /\ hasIndex
    /\ worker' = [worker EXCEPT ![w].pc = "scan"]
    /\ UNCHANGED <<inputs, mainPc, chrom_names, nextJoin, chromQ, chromSender, filtQ,
                   filtSender, writer, output, faultLog, history>>

\* Lines 82 and 116: IndexedReader::from_path fails without the index file.
WorkerNoIndex(w) ==
    /\ worker[w].pc = "fetch"
    /\ ~hasIndex
    /\ Panic(w, "no_index")
    /\ UNCHANGED <<inputs, mainPc, chrom_names, nextJoin, chromQ, chromSender, filtQ,
                   filtSender, writer, output, history>>

\* Lines 83 and 117: fetch fails.
WorkerFetchFail(w) ==
    /\ worker[w].pc = "fetch"
    /\ hasIndex
    /\ MayInject
    /\ Panic(w, "fetch")
    /\ UNCHANGED <<inputs, mainPc, chrom_names, nextJoin, chromQ, chromSender, filtQ,
                   filtSender, writer, output, history>>

\* Mutant: the batch is sent one record late.
FullLate(w) == worker[w].batch_counter = BatchCapacity + 1

\* Lines 88-94 / 120-126: at the top of an iteration a full batch is sent and a
\* new one started.  The batch the iteration goes on with, and the channel.
Full(w) == worker[w].batch_counter = BatchCapacity
BatchAfterSend(w) == IF Full(w) THEN <<>> ELSE worker[w].record_batch
\* Mutant: batch_counter is not reset after a send.
CounterAfterSendKept(w) == worker[w].batch_counter
CounterAfterSend(w) == IF Full(w) THEN 0 ELSE worker[w].batch_counter
QueueAfterSend(w) == IF Full(w) THEN Append(filtQ, worker[w].record_batch) ELSE filtQ
EmittedAfterSend(w) == IF Full(w) THEN emitted \cup {worker[w].record_batch} ELSE emitted

\* Lines 87-105 / 119-131: one iteration of the scan loop that reads a record.
WorkerScan(w) ==
    LET recs == FetchRecords(worker[w].chrom)
        r    == recs[worker[w].cursor]
    IN  /\ worker[w].pc = "scan"
        /\ worker[w].cursor <= Len(recs)
        /\ Full(w) => ReceiverAlive
        /\ filtQ' = QueueAfterSend(w)
        /\ worker' = [worker EXCEPT ![w] =
                        [@ EXCEPT !.cursor = @ + 1,
                                  !.record_batch =
                                      IF Keeps(worker[w].chrom, r)
                                      THEN Append(BatchAfterSend(w), r)
                                      ELSE BatchAfterSend(w),
                                  !.batch_counter =
                                      IF Keeps(worker[w].chrom, r)
                                      THEN CounterAfterSend(w) + 1
                                      ELSE CounterAfterSend(w)]]
        /\ scanned' = scanned \cup {r}
        /\ retained' = IF Keeps(worker[w].chrom, r) THEN retained \cup {r} ELSE retained
        /\ emitted' = EmittedAfterSend(w)
        /\ UNCHANGED <<inputs, mainPc, chrom_names, nextJoin, chromQ, chromSender,
                       filtSender, writer, output, faultLog, claimed>>

\* Lines 89-91 / 121-123: the send of a full batch fails (the receiver is gone).
WorkerScanSendFail(w) ==
    /\ worker[w].pc = "scan"
    /\ worker[w].cursor <= Len(FetchRecords(worker[w].chrom))
    /\ Full(w)
    /\ ~ReceiverAlive
    /\ Panic(w, "send")
    /\ UNCHANGED <<inputs, mainPc, chrom_names, nextJoin, chromQ, chromSender, filtQ,
                   filtSender, writer, output, history>>

\* Lines 96 / 128: reading the next record fails, after the send of a full batch.
WorkerReadFail(w) ==
    /\ worker[w].pc = "scan"
    /\ worker[w].cursor <= Len(FetchRecords(worker[w].chrom))
    /\ Full(w) => ReceiverAlive
    /\ MayInject
    /\ filtQ' = QueueAfterSend(w)
    /\ emitted' = EmittedAfterSend(w)
    /\ Panic(w, "read")
    /\ UNCHANGED <<inputs, mainPc, chrom_names, nextJoin, chromQ, chromSender,
                   filtSender, writer, output, scanned, retained, claimed>>

\* Mutant: the batch left at the end of the scan is not sent.
WorkerFlushNoSend(w) ==
    /\ worker[w].pc = "scan"
    /\ worker[w].cursor > Len(FetchRecords(worker[w].chrom))
    /\ worker' = [worker EXCEPT ![w] = [@ EXCEPT !.pc = "recv", !.record_batch = <<>>,
                                                  !.batch_counter = 0]]
    /\ UNCHANGED <<inputs, mainPc, chrom_names, nextJoin, chromQ, chromSender, filtQ,
                   filtSender, writer, output, faultLog, history>>

\* Lines 107-112 / 133-138: the records are exhausted; a non-empty batch is sent.
WorkerFlush(w) ==
    /\ worker[w].pc = "scan"
    /\ worker[w].cursor > Len(FetchRecords(worker[w].chrom))
    /\ Len(worker[w].record_batch) > 0 => ReceiverAlive
    /\ filtQ' = IF Len(worker[w].record_batch) > 0
                THEN Append(filtQ, worker[w].record_batch) ELSE filtQ
    /\ emitted' = IF Len(worker[w].record_batch) > 0
                  THEN emitted \cup {worker[w].record_batch} ELSE emitted
    /\ worker' = [worker EXCEPT ![w] = [@ EXCEPT !.pc = "recv", !.record_batch = <<>>,
                                                  !.batch_counter = 0]]
    /\ UNCHANGED <<inputs, mainPc, chrom_names, nextJoin, chromQ, chromSender,
                   filtSender, writer, output, faultLog, scanned, retained, claimed>>

\* Lines 109-111 / 135-137: the final send fails (the receiver is gone).
WorkerFlushSendFail(w) ==
    /\ worker[w].pc = "scan"
    /\ worker[w].cursor > Len(FetchRecords(worker[w].chrom))
    /\ Len(worker[w].record_batch) > 0
    /\ ~ReceiverAlive
    /\ Panic(w, "send")
    /\ UNCHANGED <<inputs, mainPc, chrom_names, nextJoin, chromQ, chromSender, filtQ,
                   filtSender, writer, output, history>>

\* ---------------------------------------------------------- writer thread

\* Lines 149-150: the output is created and its header written.
WriterOpen ==
    /\ writer = "open"
    /\ output' = Append(output, WrittenHeader(header))
    /\ writer' = "recv"
    /\ UNCHANGED <<inputs, mainPc, chrom_names, nextJoin, chromQ, chromSender, filtQ,
                   filtSender, worker, faultLog, history>>

\* Line 150: the output cannot be created.
WriterOpenFail ==
    /\ writer = "open"
    /\ MayInject
    /\ writer' = "panicked"
    /\ faultLog' = Append(faultLog, Fault(0, "open_output"))
    /\ UNCHANGED <<inputs, mainPc, chrom_names, nextJoin, chromQ, chromSender, filtQ,
                   filtSender, worker, output, history>>

\* Mutant: the first record of a batch is not written.
WriterWriteBatchDropsFirst ==
    /\ writer = "recv"
    /\ filtQ # <<>>
    /\ filtQ' = Tail(filtQ)
    /\ output' = output \o Entries(Tail(Head(filtQ)))
    /\ UNCHANGED <<inputs, mainPc, chrom_names, nextJoin, chromQ, chromSender, filtSender,
                   worker, writer, faultLog, history>>

\* Lines 152-156: the next batch is received and each of its records written.
WriterWriteBatch ==
    /\ writer = "recv"
    /\ filtQ # <<>>
    /\ filtQ' = Tail(filtQ)
    /\ output' = output \o Entries(Head(filtQ))
    /\ UNCHANGED <<inputs, mainPc, chrom_names, nextJoin, chromQ, chromSender, filtSender,
                   worker, writer, faultLog, history>>

\* Line 154: a write fails after k records of the batch were written.
WriterWriteFail ==
    /\ writer = "recv"
    /\ filtQ # <<>>
    /\ MayInject
    /\ \E k \in 0..Len(Head(filtQ)) - 1 :
           output' = output \o Entries(SubSeq(Head(filtQ), 1, k))
    /\ filtQ' = Tail(filtQ)
    /\ writer' = "panicked"
    /\ faultLog' = Append(faultLog, Fault(0, "write"))
    /\ UNCHANGED <<inputs, mainPc, chrom_names, nextJoin, chromQ, chromSender, filtSender,
                   worker, history>>

\* Lines 152, 157: the channel is empty and every sender dropped: the loop ends
\* and the writer is dropped, which closes the output.
WriterChannelClosed ==
    /\ writer = "recv"
    /\ filtQ = <<>>
    /\ ~SendersAlive
    /\ writer' = "done"
    /\ UNCHANGED <<inputs, mainPc, chrom_names, nextJoin, chromQ, chromSender, filtQ,
                   filtSender, worker, output, faultLog, history>>

\* ------------------------------------------------------------------- Next

Next ==
    \/ MainSpawnFilters
    \/ MainSpawnWriter
    \/ MainSendChrom
    \/ MainDropChromSender
    \/ MainDropFiltSender
    \/ MainJoinFilter
    \/ MainJoinWriter
    \/ \E w \in Workers : WorkerRecv(w)
    \/ \E w \in Workers : WorkerQueueClosed(w)
    \/ \E w \in Workers : WorkerFetch(w)
    \/ \E w \in Workers : WorkerNoIndex(w)
    \/ \E w \in Workers : WorkerFetchFail(w)
    \/ \E w \in Workers : WorkerScan(w)
    \/ \E w \in Workers : WorkerScanSendFail(w)
    \/ \E w \in Workers : WorkerReadFail(w)
    \/ \E w \in Workers : WorkerFlush(w)
    \/ \E w \in Workers : WorkerFlushSendFail(w)
    \/ WriterOpen
    \/ WriterOpenFail
    \/ WriterWriteBatch
    \/ WriterWriteFail
    \/ WriterChannelClosed

Spec == Init /\ [][Next]_vars

\* The runs of Spec with an empty interval file, under a scheduler that runs
\* every thread that can take a step: a behaviour goes on until no thread can
\* move.
InitFair ==
    \E h \in Prefixes(ChromNames), idx \in BOOLEAN, n \in 0..MaxThreads :
        \E recs \in BamFiles(h, MaxRecs) : Start([c \in {} |-> <<>>], h, recs, idx, n)

FairSpec == InitFair /\ [][Next]_vars /\ WF_vars(Next)

\* The steps of a run in which no I/O operation fails.
NextNoFault ==
    \/ MainSpawnFilters
    \/ MainSpawnWriter
    \/ MainSendChrom
    \/ MainDropChromSender
    \/ MainDropFiltSender
    \/ MainJoinFilter
    \/ MainJoinWriter
    \/ \E w \in Workers : WorkerRecv(w)
    \/ \E w \in Workers : WorkerQueueClosed(w)
    \/ \E w \in Workers : WorkerFetch(w)
    \/ \E w \in Workers : WorkerScan(w)
    \/ \E w \in Workers : WorkerFlush(w)
    \/ WriterOpen
    \/ WriterWriteBatch
    \/ WriterChannelClosed

\* The runs without I/O fault on an indexed input with at least one filter
\* thread and an interval file that lists no chromosome or every chromosome,
\* under a scheduler that runs every thread that can take a step.
InitDone ==
    \E h \in Prefixes(ChromNames), n \in 1..MaxThreads :
        \E b \in {m \in BedMaps : DOMAIN m \in {{}, Range(ChromNames)}} :
            \E recs \in BamFiles(h, MaxRecs) : Start(b, h, recs, TRUE, n)

SpecDone == InitDone /\ [][NextNoFault]_vars /\ WF_vars(NextNoFault)

\* ------------------------------------------- the scenario of the test plan
\* The coordinates of the boundary and end-to-end cases.
ScenarioPositions == {50, 90, 100, 150, 180, 190, 200, 205, 210, 260}

ScenarioIntervals ==
    {Iv(q[1], q[2]) : q \in {x \in ScenarioPositions \X ScenarioPositions : x[1] < x[2]}}

\* The records of the cases on chr1, one record on chr2 (which has no
\* intervals) and one unassigned record, in coordinate order.
ScenarioRecords ==
    << [chrom |-> "chr1", start |-> 50,  end |-> 90],
       [chrom |-> "chr1", start |-> 150, end |-> 180],
       [chrom |-> "chr1", start |-> 190, end |-> 210],
       [chrom |-> "chr1", start |-> 200, end |-> 210],
       [chrom |-> "chr1", start |-> 205, end |-> 260],
       [chrom |-> "chr2", start |-> 100, end |-> 200],
       [chrom |-> NoChrom, start |-> 0, end |-> 1] >>

\* The sub-sequence of s at the places in keep.
RECURSIVE Pick(_, _, _)
Pick(s, keep, i) ==
    IF i > Len(s) THEN <<>>
    ELSE (IF i \in keep THEN <<s[i]>> ELSE <<>>) \o Pick(s, keep, i + 1)

WithIds(f) == [i \in DOMAIN f |-> Rec(i, f[i].chrom, f[i].start, f[i].end)]

\* The files made of at most n of the scenario's records.
ScenarioFiles(n) ==
    {WithIds(Pick(ScenarioRecords, keep, 1)) :
        keep \in {k \in SUBSET (1..Len(ScenarioRecords)) : Cardinality(k) <= n}}

\* One single-record file per span over the scenario's coordinates.
SpanFiles ==
    {<<Rec(1, "chr1", q[1], q[2])>> :
        q \in {x \in ScenarioPositions \X ScenarioPositions : x[1] < x[2]}}

\* Boundary cases: one interval on chr1, one worker, an indexed input.
InitBoundary ==
    \/ \E iv \in ScenarioIntervals, recs \in SpanFiles :
           Start([c \in {"chr1"} |-> <<iv>>], ChromNames, recs, TRUE, 1)
    \/ \E recs \in ScenarioFiles(BatchCapacity + 2) :
           Start([c \in {"chr1"} |-> <<Iv(100, 200)>>], ChromNames, recs, TRUE, 1)

SpecBoundary == InitBoundary /\ [][NextNoFault]_vars

\* The pool sizes of the thread-count invariance property.
PoolSizes == {1, 2, 8}

\* The end-to-end scenario run with each pool size.
InitPool ==
    \E n \in PoolSizes :
        \E recs \in {WithIds(Pick(ScenarioRecords, keep, 1)) : keep \in {{1, 2, 6}}} :
            Start([c \in {"chr1"} |-> <<Iv(100, 200)>>], ChromNames, recs, TRUE, n)

SpecPool == InitPool /\ [][NextNoFault]_vars

\* ------------------------------------------------------------ batching
\* Records of chr1 in coordinate order, against the stored interval [100,200):
\* kept ones (K) and dropped ones (D) in the pattern K D K K D K D, so that
\* dropped records lie before, between and after the kept ones.
BatchRecords ==
    << [chrom |-> "chr1", start |-> 10,  end |-> 20],
       [chrom |-> "chr1", start |-> 15,  end |-> 120],
       [chrom |-> "chr1", start |-> 30,  end |-> 40],
       [chrom |-> "chr1", start |-> 50,  end |-> 90],
       [chrom |-> "chr1", start |-> 60,  end |-> 150],
       [chrom |-> "chr1", start |-> 70,  end |-> 80],
       [chrom |-> "chr1", start |-> 150, end |-> 180] >>

\* The files made of some of these records, scanned by one filter thread.
InitBatch ==
    \E keep \in SUBSET (1..Len(BatchRecords)) :
        Start([c \in {"chr1"} |-> <<Iv(100, 200)>>], <<"chr1">>,
              WithIds(Pick(BatchRecords, keep, 1)), TRUE, 1)

SpecBatch == InitBatch /\ [][NextNoFault]_vars

\* ------------------------------------------------------------- the re-run
\* An output grouped by reference in header order, as coordinate-sorting it
\* for indexing does (within a reference the output is in scan order).
RECURSIVE ByReference(_, _)
ByReference(h, recs) ==
    IF h = <<>> THEN <<>>
    ELSE SelectSeq(recs, LAMBDA r : r.chrom = Head(h)) \o ByReference(Tail(h), recs)

\* remove_regions_from_bam is called again with the same interval file and
\* pool size on the (sorted, indexed) output of a successful first run.
Rerun ==
    /\ run = 1
    /\ mainPc = "Ok"
    /\ run' = 2
    /\ bam' = ByReference(output[1].refs, OutputRecords)
    /\ header' = output[1].refs
    /\ hasIndex' = TRUE
    /\ mainPc' = "spawn_filters"
    /\ chrom_names' = get_chrom_names(output[1].refs)
    /\ nextJoin' = 1
    /\ chromQ' = <<>>
    /\ chromSender' = TRUE
    /\ filtQ' = <<>>
    /\ filtSender' = TRUE
    /\ worker' = [w \in Workers |->
                    [pc |-> "unspawned", chrom |-> NoChrom, cursor |-> 1,
                     record_batch |-> <<>>, batch_counter |-> 0]]
    /\ writer' = "unspawned"
    /\ output' = <<>>
    /\ faultLog' = <<>>
    /\ scanned' = {}
    /\ retained' = {}
    /\ emitted' = {}
    /\ claimed' = <<>>
    /\ UNCHANGED <<bedLines, bed, n_threads>>

InitRerun ==
    \E n \in 0..MaxThreads, recs \in ScenarioFiles(MaxRecs) :
        \E b \in {[c \in {"chr1"} |-> <<Iv(100, 200)>>], [c \in {} |-> <<>>]} :
            Start(b, ChromNames, recs, TRUE, n)

NextRerun == NextNoFault \/ Rerun

SpecRerun == InitRerun /\ [][NextRerun]_vars

\* ------------------------------------------------- reading the interval file
\* Largest number of lines in the interval file, and largest coordinate on a line.
MaxLines == 2
MaxCoord == 2

\* A line of the interval file: well-formed lines carry a chromosome and two
\* unsigned integers; the reader returns Err for the others.
BedLine(chrom, start, end) == [ok |-> TRUE, chrom |-> chrom, start |-> start, end |-> end]
Malformed == [ok |-> FALSE, chrom |-> NoChrom, start |-> 0, end |-> 0]

BedLineKinds ==
    {BedLine(c, a, b) : c \in Range(ChromNames), a \in 0..MaxCoord, b \in 0..MaxCoord}
        \cup {Malformed}

BedFiles == UNION {[1..k -> BedLineKinds] : k \in 0..MaxLines}

\* Line 27: bed_intervals.entry(chrom).or_insert(vec![]).push(interval).
Push(map, chrom, iv) ==
    [c \in DOMAIN map \cup {chrom} |->
        IF c = chrom
        THEN (IF c \in DOMAIN map THEN Append(map[c], iv) ELSE <<iv>>)
        ELSE map[c]]

\* Lines 20-27: the interval of a record is stored under its chromosome.
Store(map, line) == Push(map, line.chrom, Iv(line.start, line.end))

\* Lines 18-28: one iteration of get_intervals' loop over a record that parses.
GetIntervalsRecord ==
    /\ mainPc = "get_intervals"
    /\ bedLines # <<>>
    /\ Head(bedLines).ok
    /\ bed' = Store(bed, Head(bedLines))
    /\ bedLines' = Tail(bedLines)
    /\ UNCHANGED <<header, bam, hasIndex, n_threads, run, mainPc, chrom_names, nextJoin,
                   chromQ, chromSender, filtQ, filtSender, worker, writer, output,
                   faultLog, history>>

\* Line 19: the record does not parse; `expect` panics the orchestrator.
GetIntervalsBadRecord ==
    /\ mainPc = "get_intervals"
    /\ bedLines # <<>>
    /\ ~Head(bedLines).ok
    /\ mainPc' = "Panicked"
    /\ UNCHANGED <<inputs, chrom_names, nextJoin, chromQ, chromSender, filtQ, filtSender,
                   worker, writer, output, faultLog, history>>

\* Lines 30, 54-63: get_intervals returns the map; the header is read and the
\* channels are created.
GetIntervalsDone ==
    /\ mainPc = "get_intervals"
    /\ bedLines = <<>>
    /\ mainPc' = "spawn_filters"
    /\ UNCHANGED <<inputs, chrom_names, nextJoin, chromQ, chromSender, filtQ, filtSender,
                   worker, writer, output, faultLog, history>>

\* The call starts on an interval file; the alignment file has no record.
InitBed ==
    \E lines \in BedFiles :
        /\ bedLines = lines
        /\ bed = [c \in {} |-> <<>>]
        /\ header = ChromNames
        /\ bam = <<>>
        /\ hasIndex = TRUE
        /\ n_threads = 1
        /\ run = 1
        /\ mainPc = "get_intervals"
        /\ chrom_names = get_chrom_names(ChromNames)
        /\ nextJoin = 1
        /\ chromQ = <<>>
        /\ chromSender = TRUE
        /\ filtQ = <<>>
        /\ filtSender = TRUE
        /\ worker = [w \in 1..1 |->
                        [pc |-> "unspawned", chrom |-> NoChrom, cursor |-> 1,
                         record_batch |-> <<>>, batch_counter |-> 0]]
        /\ writer = "unspawned"
        /\ output = <<>>
        /\ faultLog = <<>>
        /\ scanned = {}
        /\ retained = {}
        /\ emitted = {}
        /\ claimed = <<>>

NextBed ==
    \/ GetIntervalsRecord
    \/ GetIntervalsBadRecord
    \/ GetIntervalsDone

SpecBed == InitBed /\ [][NextBed]_vars

\* ================================================================ claims
\* The number of stored intervals of r's chromosome that overlap [r.start, r.end).
StoredOverlaps(r) ==
    IF r.chrom \in DOMAIN bed
    THEN Cardinality({i \in 1..Len(bed[r.chrom]) :
            bed[r.chrom][i].start < r.end /\ r.start < bed[r.chrom][i].stop})
    ELSE 0

Written == Range(OutputRecords)

AllThreadsEnded == (\A w \in Workers : WorkerEnded(w)) /\ WriterEnded

\* C1: after remove_regions_from_bam has returned Ok, every record of the input
\* is in the output if and only if no stored interval of its chromosome
\* overlaps it.
C1_Completeness ==
    mainPc = "Ok" => \A r \in Range(bam) : (r \in Written) <=> (StoredOverlaps(r) = 0)

\* C2: for pool sizes 1, 2 and 8 and under every interleaving, the set of
\* records in the output of a successful run is one function of the input
\* records and the interval set alone; only the order of the output varies.
C2_ThreadCountInvariance ==
    (mainPc = "Ok" /\ n_threads \in PoolSizes) =>
        Written = {r \in Range(bam) : r.chrom \in Range(header) /\ StoredOverlaps(r) = 0}

\* A successful run of eight workers whose output is not in input order.
C2_Witness ==
    /\ mainPc = "Ok"
    /\ n_threads = 8
    /\ \E i, j \in 1..Len(OutputRecords) : i < j /\ OutputRecords[i].id > OutputRecords[j].id

\* C3: with the stored interval [100,200), a scanned record spanning [50,90) is
\* retained, [150,180) is dropped, [190,210) is dropped and [200,210) is
\* retained; a record that only touches the stored interval, [a,b) against
\* [b,c), is retained; and on success exactly the retained records are in the
\* output.
C3_BoundarySemantics ==
    \A r \in scanned :
        r.chrom \in DOMAIN bed =>
            LET iv == bed[r.chrom][1]
                at(a, b) == iv = Iv(100, 200) /\ r.start = a /\ r.end = b
            IN  /\ at(50, 90) => r \in retained
                /\ at(150, 180) => r \notin retained
                /\ at(190, 210) => r \notin retained
                /\ at(200, 210) => r \in retained
                /\ (iv.stop = r.start \/ r.end = iv.start) => r \in retained
                /\ mainPc = "Ok" => (r \in Written <=> r \in retained)

\* The four boundary cases have been scanned in one successful run.
C3_Witness ==
    /\ mainPc = "Ok"
    /\ bed = [c \in {"chr1"} |-> <<Iv(100, 200)>>]
    /\ \A q \in {<<50, 90>>, <<150, 180>>, <<190, 210>>, <<200, 210>>} :
           \E r \in scanned : r.start = q[1] /\ r.end = q[2]
    /\ Cardinality(Written) = 2

\* C4: every record scanned on a chromosome that has no key in the interval
\* map is retained and, when the run succeeds, is in the output; and without an
\* I/O fault no thread panics, so the missing key is not an error.
C4_AbsentChromosomeKept ==
    /\ \A r \in scanned : r.chrom \notin DOMAIN bed => r \in retained
    /\ mainPc = "Ok" => \A r \in scanned : r.chrom \notin DOMAIN bed => r \in Written
    /\ (hasIndex /\ NInjected = 0) => faultLog = <<>>

\* A successful run wrote a record of a header chromosome that has no key.
C4_Witness ==
    /\ mainPc = "Ok"
    /\ \E r \in scanned : r.chrom \in Range(header) \ DOMAIN bed /\ r \in Written

\* C5: no record of a successful run's output overlaps an excluded interval,
\* and the successful re-run on that output writes the same set of records.
C5_Idempotence ==
    /\ mainPc = "Ok" => \A r \in Written : StoredOverlaps(r) = 0
    /\ (run = 2 /\ mainPc = "Ok") => Written = Range(bam)

\* A successful re-run on a non-empty output from which the first run had
\* dropped a record.
C5_Witness ==
    /\ run = 2
    /\ mainPc = "Ok"
    /\ Written # {}
    /\ \E i \in 1..Len(bam) : bam[i].id # i

\* C6: the output holds at most one header, it is the first thing written, it
\* declares the input header's full list of references, and the writer has
\* written it once it receives batches.
C6_HeaderOnceFirstAndFull ==
    /\ \A i \in 1..Len(output) : (output[i].kind = "header") <=> (i = 1)
    /\ output # <<>> => output[1] = HeaderEntry(header)
    /\ writer \in {"recv", "done"} => output # <<>>
    /\ mainPc = "Ok" => output # <<>>

\* A successful run that dropped every record of the declared references.
C6_Witness ==
    /\ mainPc = "Ok"
    /\ Len(header) = Len(ChromNames)
    /\ \A c \in Range(header) : \E r \in scanned : r.chrom = c
    /\ output = <<HeaderEntry(header)>>

\* C7: remove_regions_from_bam does not return Ok in a run in which a filter
\* thread or the writer thread panicked.
C7_NoSuccessAfterFatalError ==
    mainPc = "Ok" =>
        /\ faultLog = <<>>
        /\ \A w \in Workers : worker[w].pc # "panicked"
        /\ writer # "panicked"

\* The call has failed after a write failure and a failed send.
C7_Witness ==
    /\ mainPc = "Panicked"
    /\ \E i, j \in 1..Len(faultLog) : faultLog[i].what = "write" /\ faultLog[j].what = "send"

\* C8: when remove_regions_from_bam returns Ok every filter thread and the
\* writer thread have returned, the batch channel is empty and the records of
\* every emitted batch are in the output.
C8_SuccessOnlyAfterJoin ==
    mainPc = "Ok" =>
        /\ \A w \in Workers : worker[w].pc = "done"
        /\ writer = "done"
        /\ filtQ = <<>>
        /\ \A b \in emitted : Range(b) \subseteq Written

\* A successful run of two workers that emitted two batches.
C8_Witness ==
    /\ mainPc = "Ok"
    /\ n_threads >= 2
    /\ Cardinality(emitted) >= 2

\* C9: once a thread has panicked, no further chromosome is taken from the
\* chromosome channel and no further record is written to the output.
C9_ShortCircuit ==
    [][faultLog # <<>> =>
          /\ Len(chromQ') >= Len(chromQ)
          /\ RecordsOf(output') = RecordsOf(output)]_vars

\* C10: after a panic in a filter thread or in the writer, every filter thread
\* and the writer eventually end.
C10_OrderlyShutdown == (faultLog # <<>>) ~> AllThreadsEnded

\* A filter thread panicked; a sibling and the writer returned normally.
C10_Witness ==
    /\ \E w \in Workers : worker[w].pc = "panicked"
    /\ \E w \in Workers : worker[w].pc = "done"
    /\ writer = "done"

\* Lines 169-172: the thread whose panic the orchestrator's failing
\* `join().expect(..)` reports: the first panicked handle in join order (filter
\* threads in spawn order, then the writer, thread 0).
Surfaced == IF nextJoin <= n_threads THEN nextJoin ELSE 0

\* C11: when the call has failed and more than one thread panicked, the panic
\* the orchestrator reports is that of the thread that panicked first in time.
C11_FirstErrorSurfaced ==
    (mainPc = "Panicked" /\ Len(faultLog) > 1) => faultLog[1].who = Surfaced

\* C12: without the index file the call never returns Ok, and it fails before
\* any chromosome name is sent, any filter thread opens the input, and the
\* writer creates the output.
C12_NoIndexFailsInInit ==
    ~hasIndex =>
        /\ mainPc # "Ok"
        /\ chrom_names = get_chrom_names(header)
        /\ \A w \in Workers : worker[w].pc \in {"unspawned", "recv"}
        /\ output = <<>>

\* C13: the call never returns Ok when the pool size is 0.
C13_ZeroThreadsRejected == n_threads = 0 => mainPc # "Ok"

\* C14: get_intervals never stores an interval whose stop is below its start,
\* and it does not return the map when it has read such a line.
C14_NoReversedIntervalStored ==
    \A c \in DOMAIN bed : \A i \in 1..Len(bed[c]) : bed[c][i].stop >= bed[c][i].start

\* The names received so far, in the order they were received.
ClaimedNames == [i \in 1..Len(claimed) |-> claimed[i].chrom]

\* C15: every name of the header is, in header order, either still to be sent,
\* in the chromosome channel, or received; no name is received twice, by the
\* same or by two filter threads; a record is scanned only on a received
\* name; and when a run with at least one filter thread has returned Ok every
\* name was received and every record of every name was scanned.
C15_ChromosomeConsumedOnce ==
    /\ ClaimedNames \o chromQ \o chrom_names = get_chrom_names(header)
    /\ \A i, j \in 1..Len(claimed) : claimed[i].chrom = claimed[j].chrom => i = j
    /\ \A r \in scanned : \E i \in 1..Len(claimed) : claimed[i].chrom = r.chrom
    /\ (mainPc = "Ok" /\ n_threads >= 1) =>
           /\ Len(claimed) = Len(header)
           /\ \A r \in Range(bam) : r.chrom \in Range(header) => r \in scanned

\* A successful run in which two filter threads each received one of two names.
C15_Witness ==
    /\ mainPc = "Ok"
    /\ Len(claimed) = 2
    /\ claimed[1].who # claimed[2].who
    /\ \E r \in scanned : r.chrom = claimed[2].chrom

\* C16: any two records of one chromosome in the output are in the order in
\* which the scan of that chromosome read them (the order of the input file),
\* at every moment of every run.
C16_OrderWithinChromosome ==
    \A i, j \in 1..Len(OutputRecords) :
        (i < j /\ OutputRecords[i].chrom = OutputRecords[j].chrom) =>
            OutputRecords[i].id < OutputRecords[j].id

\* A successful run of two filter threads wrote two batches of one chromosome.
C16_Witness ==
    /\ mainPc = "Ok"
    /\ n_threads = 2
    /\ \E b1, b2 \in emitted : b1 # b2 /\ b1[1].chrom = b2[1].chrom /\ Len(b1) > 1
    /\ \A b \in emitted : Range(b) \subseteq Written

\* C17: when the writer thread has returned, the orchestrator's filt_sender is
\* dropped, every filter thread has ended, the batch channel is empty and the
\* records of every batch handed to the channel are in the output.
C17_WriterEndsAfterProducers ==
    writer = "done" =>
        /\ ~filtSender
        /\ \A w \in Workers : worker[w].pc \in {"done", "panicked"}
        /\ filtQ = <<>>
        /\ \A b \in emitted : Range(b) \subseteq Written

\* The writer returned, before the orchestrator joined it, after two filter
\* threads had handed it two batches.
C17_Witness ==
    /\ writer = "done"
    /\ mainPc = "join"
    /\ n_threads = 2
    /\ \E b1, b2 \in emitted : b1[1].chrom # b2[1].chrom

\* C19: every batch handed to the batch channel holds between 1 and
\* BatchCapacity records, all of them retained; a batch below capacity ends with
\* the last retained record of its chromosome; and a filter thread's batch never
\* exceeds the capacity.
C19_BatchSizes ==
    /\ \A b \in emitted :
           /\ Len(b) \in 1..BatchCapacity
           /\ Range(b) \subseteq retained
           /\ Len(b) < BatchCapacity =>
                  \A r \in retained : r.chrom = b[1].chrom => r.id <= b[Len(b)].id
    /\ \A i \in 1..Len(filtQ) : filtQ[i] \in emitted
    /\ \A w \in Workers :
           /\ worker[w].batch_counter = Len(worker[w].record_batch)
           /\ worker[w].batch_counter <= BatchCapacity

\* A successful run emitted a full batch and then a batch of one record of the
\* same chromosome, and scanned a chromosome without retaining a record.
C19_Witness ==
    /\ mainPc = "Ok"
    /\ \E b1, b2 \in emitted :
           Len(b1) = BatchCapacity /\ Len(b2) = 1 /\ b1[1].chrom = b2[1].chrom
    /\ \E i \in 1..Len(claimed) : \A r \in retained : r.chrom # claimed[i].chrom

\* C18: in a run without fault and with at least one filter thread, for every
\* number of header chromosomes: the call eventually returns Ok; once
\* chrom_sender is dropped and the chromosome channel is empty every filter
\* thread eventually returns; a filter thread has returned only if the channel
\* is empty and chrom_sender dropped; and the writer has returned only if every
\* filter thread has.
C18_FailureFreeTermination ==
    /\ (n_threads >= 1) ~> (mainPc = "Ok")
    /\ (~chromSender /\ chromQ = <<>>) ~> (\A w \in Workers : worker[w].pc = "done")
    /\ [](\A w \in Workers : worker[w].pc = "done" => (chromQ = <<>> /\ ~chromSender))
    /\ [](writer = "done" => \A w \in Workers : worker[w].pc = "done")

\* The call returned Ok on a header without chromosomes with two filter threads.
C18_Witness ==
    /\ mainPc = "Ok"
    /\ header = <<>>
    /\ n_threads = 2
    /\ \A w \in Workers : worker[w].pc = "done"

\* The place of each orchestrator step in the order of the source.
Rank(pc) ==
    CASE pc = "get_intervals" -> 0
      [] pc = "spawn_filters" -> 1
      [] pc = "spawn_writer" -> 2
      [] pc = "send" -> 3
      [] pc = "drop_filt_sender" -> 4
      [] pc = "join" -> 5
      [] pc \in {"Ok", "Panicked"} -> 6

\* C20 as the code has it: the orchestrator only moves forward through
\* spawning the filter threads, spawning the writer, sending the names,
\* dropping chrom_sender, dropping filt_sender, joining the filter threads in
\* spawn order, joining the writer and returning.  So no thread runs before the
\* filter threads are spawned, the writer is spawned after them, names are sent
\* only once both are spawned, chrom_sender is dropped only after the last name
\* was sent, filt_sender only after chrom_sender, a join only after both drops,
\* and Ok only after every join.
C20_ForwardStageOrder ==
    /\ [][Rank(mainPc') >= Rank(mainPc) /\ nextJoin' >= nextJoin]_vars
    /\ [](/\ mainPc = "spawn_filters" =>
                (writer = "unspawned" /\ \A w \in Workers : worker[w].pc = "unspawned")
          /\ writer # "unspawned" => \A w \in Workers : worker[w].pc # "unspawned"
          /\ chrom_names # get_chrom_names(header) => writer # "unspawned"
          /\ ~chromSender => chrom_names = <<>>
          /\ ~filtSender => ~chromSender
          /\ nextJoin > 1 => ~filtSender
          /\ mainPc = "Ok" => (nextJoin > n_threads /\ writer = "done"))

\* A successful run of two filter threads over two chromosomes wrote a record.
C20_Witness ==
    /\ mainPc = "Ok"
    /\ n_threads = 2
    /\ Len(header) = 2
    /\ nextJoin = 3
    /\ Written # {}

\* C20 as stated: no filter thread and no writer runs before every name is in
\* the chromosome channel, and the orchestrator's end of the batch channel is
\* closed only after every filter thread was joined.
C20_DispatchBeforeRun ==
    /\ (writer # "unspawned" \/ \E w \in Workers : worker[w].pc # "unspawned") =>
           chrom_names = <<>>
    /\ ~filtSender => nextJoin > n_threads

\* Lines 149-157: the output file is open while bam_writer lives, from its
\* creation to the end of the writer thread's closure (return or unwinding).
OutputOpen == writer = "recv"

\* C21: when the call has ended, with Ok or with a panic, the output file is
\* not open: a file that was opened has been closed.
C21_OutputClosedAtEnd == mainPc \in {"Ok", "Panicked"} => ~OutputOpen

\* The batches of chromosome c handed to the batch channel so far, the records
\* of c retained so far, and whether a filter thread is scanning c.
BatchesOf(c) == {b \in emitted : b # <<>> /\ b[1].chrom = c}
RetainedOf(c) == {r \in retained : r.chrom = c}
Scanning(c) == \E w \in Workers : worker[w].chrom = c /\ worker[w].pc \in {"fetch", "scan"}

\* C22: in a run without fault, for every received chromosome with k retained
\* records so far: while it is scanned the batches emitted are all full and,
\* with the batch in the filter thread's hands, hold the k records; once its
\* scan is over exactly ceil(k / BatchCapacity) batches were emitted, and all
\* but the one holding the last retained record are full; no empty batch is
\* ever emitted.
C22_BatchCount ==
    faultLog = <<>> =>
        /\ <<>> \notin emitted
        /\ \A i \in 1..Len(claimed) :
               LET c == claimed[i].chrom
                   k == Cardinality(RetainedOf(c))
                   nb == Cardinality(BatchesOf(c))
                   held == Len(worker[claimed[i].who].record_batch)
               IN  /\ Scanning(c) =>
                          /\ nb * BatchCapacity + held = k
                          /\ \A b \in BatchesOf(c) : Len(b) = BatchCapacity
                   /\ ~Scanning(c) =>
                          /\ nb = (k + BatchCapacity - 1) \div BatchCapacity
                          /\ \A b \in BatchesOf(c) :
                                 \/ Len(b) = BatchCapacity
                                 \/ \A r \in RetainedOf(c) : r.id <= b[Len(b)].id

\* A finished scan retained 2 * BatchCapacity records, with a dropped record
\* between them and one after the last, and emitted two batches.
C22_Witness ==
    /\ mainPc = "Ok"
    /\ Cardinality(retained) = 2 * BatchCapacity
    /\ Cardinality(emitted) = 2
    /\ \E d \in scanned \ retained : \A r \in retained : r.id < d.id
    /\ \E d \in scanned \ retained : \E r1, r2 \in retained : r1.id < d.id /\ d.id < r2.id

\* The records a scan of every header chromosome retains.
RetainedOfInput ==
    {r \in Range(bam) : r.chrom \in Range(header) /\ Keeps(r.chrom, r)}

\* C23: no record is in the output twice and every record in the output was
\* retained by a scan, at every moment; when the call has returned Ok the
\* records in the output are exactly the retained ones, and with at least one
\* filter thread these are the retained records of all header chromosomes.
C23_WrittenExactlyOnce ==
    /\ \A i, j \in 1..Len(OutputRecords) : OutputRecords[i] = OutputRecords[j] => i = j
    /\ Written \subseteq retained
    /\ mainPc = "Ok" => Written = retained
    /\ (mainPc = "Ok" /\ n_threads >= 1) => retained = RetainedOfInput

\* A successful run of two filter threads wrote MaxRecs records of two
\* chromosomes.
C23_Witness ==
    /\ mainPc = "Ok"
    /\ n_threads = 2
    /\ Len(OutputRecords) = MaxRecs
    /\ \E r1, r2 \in Written : r1.chrom # r2.chrom

\* The output of a run with one filter thread: the retained records grouped by
\* chromosome in header order, in scan order within a chromosome.
ExpectedOutput ==
    ByReference(get_chrom_names(header), SelectSeq(bam, LAMBDA r : Keeps(r.chrom, r)))

\* C24: with one filter thread the records in the output are, at every moment,
\* a prefix of the retained records grouped by chromosome in header order and
\* in scan order within each chromosome, and all of them once the call has
\* returned Ok.
C24_SingleWorkerOrder ==
    n_threads = 1 =>
        /\ OutputRecords \in Prefixes(ExpectedOutput)
        /\ mainPc = "Ok" => OutputRecords = ExpectedOutput

\* A successful run of one filter thread wrote records of two chromosomes.
C24_Witness ==
    /\ mainPc = "Ok"
    /\ n_threads = 1
    /\ Len(OutputRecords) = MaxRecs
    /\ OutputRecords[1].chrom # OutputRecords[MaxRecs].chrom

\* The places in the output of the records of batch b.
PlacesOf(b) == {i \in 1..Len(OutputRecords) : OutputRecords[i] \in Range(b)}

\* C25: every batch handed to the batch channel, and the batch in a filter
\* thread's hands, holds records of one chromosome only (the one the thread is
\* scanning); and the records of a batch that are in the output stand there
\* next to each other, in the order of the batch.
C25_BatchOneChromosome ==
    /\ \A b \in emitted : \A r \in Range(b) : r.chrom = b[1].chrom
    /\ \A w \in Workers : \A r \in Range(worker[w].record_batch) : r.chrom = worker[w].chrom
    /\ \A b \in emitted :
           \/ PlacesOf(b) = {}
           \/ \E p \in 1..Len(OutputRecords) :
                  /\ PlacesOf(b) = p..(p + Cardinality(PlacesOf(b)) - 1)
                  /\ \A i \in PlacesOf(b) : OutputRecords[i] = b[i - p + 1]

\* Two filter threads ran, and the output holds a batch of two records of one
\* chromosome followed by a record of another chromosome scanned before it.
C25_Witness ==
    /\ writer = "done"
    /\ n_threads = 2
    /\ \E b \in emitted : Len(b) = 2 /\ PlacesOf(b) = {1, 2}
    /\ Len(OutputRecords) = 3
    /\ OutputRecords[3].id < OutputRecords[1].id

\* C26: a record of the input that is assigned to no reference of the header is
\* never read by a scan and never in the output, whatever the interval map.
C26_UnplacedNeverWritten ==
    \A r \in Range(bam) :
        r.chrom \notin Range(header) => (r \notin scanned /\ r \notin Written)

\* A successful run with an empty interval map wrote a record of a header
\* chromosome and left out the record assigned to no reference.
C26_Witness ==
    /\ mainPc = "Ok"
    /\ n_threads >= 1
    /\ DOMAIN bed = {}
    /\ \E r \in Range(bam) : r.chrom = NoChrom
    /\ Written # {}
    /\ Written # Range(bam)

====
